---- MODULE Spec2Model ----
(***************************************************************************)
(* NEUROS: a Record Store (SQLite, src/neuros/storage.py), a Vector Index  *)
(* (ChromaDB + sentence transformer, src/neuros/embeddings.py) and the     *)
(* orchestrator that composes them (src/neuros/core.py).                   *)
(*                                                                         *)
(* Text is a sequence of one-character strings, so that LIKE, strip and    *)
(* the JSON encoding of metadata and tags are computed, not assumed.       *)
(* A Python Optional / SQL nullable value is <<>> (None, NULL) or <<v>>.   *)
(***************************************************************************)
EXTENDS Integers, Sequences, FiniteSets, TLC

VARIABLES
    rows,        \* the memories table: id -> row (the database behind db_path)
    seq,         \* sqlite_sequence: the largest id AUTOINCREMENT has assigned
    connection,  \* MemoryStorage.connection of NEUROS.storage: "open" | "closed"
    idx,         \* the ChromaDB collection neuros_memories: str(id) -> entry
    config,      \* what __init__ fixed: db_path, self.embeddings, model, collection
    clock,       \* CURRENT_TIMESTAMP, in seconds (every call of a run falls in one second)
    last,        \* the last call on the NEUROS instance: operation, arguments, outcome
    hist,        \* history: ids returned and deleted so far (not program state)
    inflight     \* per calling thread: the call that is between its Record Store step
                 \* and its Vector Index step, or Idle

vars == <<rows, seq, connection, idx, config, clock, last, hist, inflight>>

----------------------------------------------------------------------------
(* Bounds of the model *)

\* Largest id the Record Store assigns before remember is cut off.
MaxId == 2

----------------------------------------------------------------------------
(* Optional values and text *)

None == <<>>

Some(v) == <<v>>

IsNone(o) == Len(o) = 0

Val(o) == o[1]

Max(S) == CHOOSE x \in S : \A y \in S : y <= x

Min2(a, b) == IF a <= b THEN a ELSE b

\* memories[:limit] (Python slice with a stop only; a negative stop counts from the end)
Slice(s, limit) ==
    IF limit >= 0 THEN SubSeq(s, 1, Min2(limit, Len(s)))
    ELSE SubSeq(s, 1, IF Len(s) + limit > 0 THEN Len(s) + limit ELSE 0)

\* str.strip(): leading and trailing whitespace removed
RECURSIVE LStrip(_)
LStrip(s) == IF s # <<>> /\ Head(s) = " " THEN LStrip(Tail(s)) ELSE s

RECURSIVE RStrip(_)
RStrip(s) ==
    IF s # <<>> /\ s[Len(s)] = " " THEN RStrip(SubSeq(s, 1, Len(s) - 1)) ELSE s

Strip(s) == RStrip(LStrip(s))

\* str(memory_id) of a positive integer: its decimal digits
Digit(d) ==
    CASE d = 0 -> "0" [] d = 1 -> "1" [] d = 2 -> "2" [] d = 3 -> "3" [] d = 4 -> "4"
      [] d = 5 -> "5" [] d = 6 -> "6" [] d = 7 -> "7" [] d = 8 -> "8" [] d = 9 -> "9"

RECURSIVE IdToStr(_)
IdToStr(n) == IF n < 10 THEN <<Digit(n)>> ELSE IdToStr(n \div 10) \o <<Digit(n % 10)>>

\* int(result['memory_id']) of a string of decimal digits
DigitVal(c) == CHOOSE d \in 0..9 : Digit(d) = c

RECURSIVE StrToId(_)
StrToId(s) ==
    IF Len(s) = 1 THEN DigitVal(s[1])
    ELSE 10 * StrToId(SubSeq(s, 1, Len(s) - 1)) + DigitVal(s[Len(s)])

----------------------------------------------------------------------------
(* json.dumps / json.loads on the values the callers pass: a list of      *)
(* strings (tags) or a dict of string to string (metadata), the dict as   *)
(* its sequence of <<key, value>> items in insertion order.  The texts of  *)
(* the model hold no quote, backslash or non-ASCII character, which        *)
(* json.dumps would escape.                                                *)

Quote == "\""

DumpsStr(s) == <<Quote>> \o s \o <<Quote>>

RECURSIVE JoinItems(_)
JoinItems(items) ==
    IF items = <<>> THEN <<>>
    ELSE IF Len(items) = 1 THEN items[1]
    ELSE items[1] \o <<",", " ">> \o JoinItems(Tail(items))

DumpsList(l) == <<"[">> \o JoinItems([i \in 1..Len(l) |-> DumpsStr(l[i])]) \o <<"]">>

DumpsDict(d) ==
    <<"{">>
    \o JoinItems([i \in 1..Len(d) |-> DumpsStr(d[i][1]) \o <<":", " ">> \o DumpsStr(d[i][2])])
    \o <<"}">>

\* The position of the quote that closes the string opened at position i of t.
CloseQuote(t, i) == CHOOSE j \in (i + 1)..Len(t) : t[j] = Quote /\ \A k \in (i + 1)..(j - 1) : t[k] # Quote

\* json.loads of the text of a list, scanning from position i (at an opening quote or "]").
RECURSIVE LoadsListFrom(_, _)
LoadsListFrom(t, i) ==
    IF t[i] = "]" THEN <<>>
    ELSE IF t[i] = Quote
         THEN <<SubSeq(t, i + 1, CloseQuote(t, i) - 1)>> \o LoadsListFrom(t, CloseQuote(t, i) + 1)
         ELSE LoadsListFrom(t, i + 1)

LoadsList(t) == LoadsListFrom(t, 2)

\* json.loads of the text of a dict, scanning from position i (at a key's quote or "}").
RECURSIVE LoadsDictFrom(_, _)
LoadsDictFrom(t, i) ==
    IF t[i] = "}" THEN <<>>
    ELSE IF t[i] = Quote
         THEN LET ke == CloseQuote(t, i)
                  vs == ke + 3
                  ve == CloseQuote(t, vs)
              IN  << <<SubSeq(t, i + 1, ke - 1), SubSeq(t, vs + 1, ve - 1)>> >>
                  \o LoadsDictFrom(t, ve + 1)
         ELSE LoadsDictFrom(t, i + 1)

LoadsDict(t) == LoadsDictFrom(t, 2)

----------------------------------------------------------------------------
(* SQLite: LIKE *)

\* LIKE folds the case of ASCII letters.
Lower(c) ==
    CASE c = "A" -> "a" [] c = "B" -> "b" [] c = "C" -> "c"
      [] c = "X" -> "x" [] c = "Y" -> "y" [] c = "Z" -> "z"
      [] OTHER -> c

\* s LIKE p: % matches any run of characters, _ any one character.
RECURSIVE Like(_, _)
Like(s, p) ==
    IF p = <<>> THEN s = <<>>
    ELSE IF Head(p) = "%" THEN Like(s, Tail(p)) \/ (s # <<>> /\ Like(Tail(s), p))
    ELSE IF s = <<>> THEN FALSE
    ELSE IF Head(p) = "_" THEN Like(Tail(s), Tail(p))
    ELSE Lower(Head(s)) = Lower(Head(p)) /\ Like(Tail(s), Tail(p))

\* column LIKE '%text%', the parameter f"%{text}%"; NULL LIKE p is not true.
LikeContains(column, text) ==
    ~IsNone(column) /\ Like(Val(column), <<"%">> \o text \o <<"%">>)

----------------------------------------------------------------------------
(* Record Store: MemoryStorage *)

\* Python truthiness of an Optional str, list or dict: not None and not empty.
Truthy(o) == ~IsNone(o) /\ Len(Val(o)) > 0

\* Mutant of NextRowId: INTEGER PRIMARY KEY without AUTOINCREMENT, one more
\* than the largest id in the table.
NextRowIdOfTable(rws, sq) == Max({0} \cup DOMAIN rws) + 1

\* id INTEGER PRIMARY KEY AUTOINCREMENT: one more than the largest id ever
\* assigned in this database (sqlite_sequence), never a deleted row's id.
NextRowId(rws, sq) == Max({sq} \cup DOMAIN rws) + 1

\* Mutant of StoreMemory: the INSERT does not advance sqlite_sequence.
StoreMemoryNoSequence(rws, sq, now, content, metadata, tags, importance) ==
    [rows |-> (NextRowId(rws, sq) :> [content |-> content, metadata |-> None,
                                      embedding_id |-> None, created_at |-> now,
                                      updated_at |-> now, tags |-> None,
                                      importance |-> importance]) @@ rws,
     seq |-> sq, ret |-> NextRowId(rws, sq)]

\* Mutant of StoreMemory: the id is returned but the row is not in the table.
StoreMemoryLost(rws, sq, now, content, metadata, tags, importance) ==
    [rows |-> rws, seq |-> NextRowId(rws, sq), ret |-> NextRowId(rws, sq)]

\* store_memory: the INSERT and cursor.lastrowid.  created_at and updated_at
\* take the column default CURRENT_TIMESTAMP; embedding_id is never written.
StoreMemory(rws, sq, now, content, metadata, tags, importance) ==
    LET id == NextRowId(rws, sq)
        row == [content      |-> content,
                metadata     |-> IF Truthy(metadata) THEN Some(DumpsDict(Val(metadata))) ELSE None,
                embedding_id |-> None,
                created_at   |-> now,
                updated_at   |-> now,
                tags         |-> IF Truthy(tags) THEN Some(DumpsList(Val(tags))) ELSE None,
                importance   |-> importance]
    IN  [rows |-> (id :> row) @@ rws, seq |-> Max({sq, id}), ret |-> id]

\* _row_to_dict: dict(row) with the JSON columns parsed when they are truthy.
RowToDict(id, row) ==
    [id           |-> id,
     content      |-> row.content,
     metadata     |-> IF Truthy(row.metadata) THEN Some(LoadsDict(Val(row.metadata))) ELSE row.metadata,
     embedding_id |-> row.embedding_id,
     created_at   |-> row.created_at,
     updated_at   |-> row.updated_at,
     tags         |-> IF Truthy(row.tags) THEN Some(LoadsList(Val(row.tags))) ELSE row.tags,
     importance   |-> row.importance]

\* get_memory: the row as a dict, or None.
GetMemory(rws, id) == IF id \in DOMAIN rws THEN Some(RowToDict(id, rws[id])) ELSE None

\* Mutant of NoUpdates: "if not updates: return False" is missing, the UPDATE
\* runs with updated_at alone.
NoUpdatesIgnored(content, metadata, tags, importance) == FALSE

\* update_memory builds its SET list from the arguments that are not None.
NoUpdates(content, metadata, tags, importance) ==
    IsNone(content) /\ IsNone(metadata) /\ IsNone(tags) /\ IsNone(importance)

\* Mutant of UpdateMemory: the result is not taken from rowcount, "return True".
UpdateMemoryAlwaysTrue(rws, now, id, content, metadata, tags, importance) ==
    IF id \notin DOMAIN rws THEN [rows |-> rws, ret |-> TRUE]
    ELSE [rows |-> [rws EXCEPT ![id] =
                       [@ EXCEPT
                           !.content    = IF IsNone(content) THEN @ ELSE Val(content),
                           !.metadata   = IF IsNone(metadata) THEN @ ELSE Some(DumpsDict(Val(metadata))),
                           !.tags       = IF IsNone(tags) THEN @ ELSE Some(DumpsList(Val(tags))),
                           !.importance = IF IsNone(importance) THEN @ ELSE Val(importance),
                           !.updated_at = now]],
          ret |-> TRUE]

\* Mutant of UpdateMemory: the row is written anew (INSERT OR REPLACE), its
\* created_at default taken again.
UpdateMemoryReplacesRow(rws, now, id, content, metadata, tags, importance) ==
    IF id \notin DOMAIN rws THEN [rows |-> rws, ret |-> FALSE]
    ELSE LET old == rws[id]
             new == [old EXCEPT
                        !.content    = IF IsNone(content) THEN @ ELSE Val(content),
                        !.metadata   = IF IsNone(metadata) THEN @ ELSE Some(DumpsDict(Val(metadata))),
                        !.tags       = IF IsNone(tags) THEN @ ELSE Some(DumpsList(Val(tags))),
                        !.importance = IF IsNone(importance) THEN @ ELSE Val(importance),
                        !.created_at = now,
                        !.updated_at = now]
         IN  [rows |-> [rws EXCEPT ![id] = new], ret |-> TRUE]

\* update_memory, when at least one argument is given: the UPDATE and rowcount > 0.
UpdateMemory(rws, now, id, content, metadata, tags, importance) ==
    IF id \notin DOMAIN rws THEN [rows |-> rws, ret |-> FALSE]
    ELSE LET old == rws[id]
             new == [old EXCEPT
                        !.content    = IF IsNone(content) THEN @ ELSE Val(content),
                        !.metadata   = IF IsNone(metadata) THEN @ ELSE Some(DumpsDict(Val(metadata))),
                        !.tags       = IF IsNone(tags) THEN @ ELSE Some(DumpsList(Val(tags))),
                        !.importance = IF IsNone(importance) THEN @ ELSE Val(importance),
                        !.updated_at = now]
         IN  [rows |-> [rws EXCEPT ![id] = new], ret |-> TRUE]

\* Mutant of DeleteMemory: the result is not taken from rowcount, "return True".
DeleteMemoryAlwaysTrue(rws, id) ==
    [rows |-> [i \in DOMAIN rws \ {id} |-> rws[i]], ret |-> TRUE]

\* delete_memory: the DELETE and rowcount > 0.
DeleteMemory(rws, id) ==
    IF id \in DOMAIN rws
    THEN [rows |-> [i \in DOMAIN rws \ {id} |-> rws[i]], ret |-> TRUE]
    ELSE [rows |-> rws, ret |-> FALSE]

\* The WHERE clause search_memories builds: content LIKE %query% when query is
\* truthy, and one "AND tags LIKE %tag%" per tag when tags is truthy.
Matches(row, query, tags) ==
    /\ Truthy(query) => LikeContains(Some(row.content), Val(query))
    /\ Truthy(tags) => \A i \in 1..Len(Val(tags)) : LikeContains(row.tags, Val(tags)[i])

\* Mutant of SortsBefore: ORDER BY importance, created_at (ascending).
SortsBeforeAscending(r1, r2) ==
    \/ r1.importance < r2.importance
    \/ r1.importance = r2.importance /\ r1.created_at < r2.created_at

\* ORDER BY importance DESC, created_at DESC: r1 sorts strictly before r2.
SortsBefore(r1, r2) ==
    \/ r1.importance > r2.importance
    \/ r1.importance = r2.importance /\ r1.created_at > r2.created_at

\* The orders a query may return the ids S in: SQL leaves the order of rows
\* that tie on the ORDER BY columns open.
Orderings(rws, S) ==
    {s \in [1..Cardinality(S) -> S] :
        /\ \A i, j \in 1..Cardinality(S) : i # j => s[i] # s[j]
        /\ \A i, j \in 1..Cardinality(S) : i < j => ~SortsBefore(rws[s[j]], rws[s[i]])}

\* LIMIT n: a negative n is no limit.
SqlLimit(s, n) == IF n < 0 THEN s ELSE SubSeq(s, 1, Min2(n, Len(s)))

\* search_memories: the ids of the rows it may return, in order.
SearchMemories(rws, query, tags, limit) ==
    {SqlLimit(s, limit) :
        s \in Orderings(rws, {i \in DOMAIN rws : Matches(rws[i], query, tags)})}

----------------------------------------------------------------------------
(* Vector Index: EmbeddingManager.  Each operation is the set of its        *)
(* possible outcomes: the embedding model and the ChromaDB backend are      *)
(* external and any call into them may raise, which the method catches.     *)
(* config.collection is "ok" (self.collection is a live collection), "none" *)
(* (chromadb missing or its start-up failed: collection and client are      *)
(* None) or "stale" (the collection behind self.collection was deleted).    *)
(* An entry keeps the document; the metadata stored with it is never read.  *)

\* collection.add(ids=[key], ...): ChromaDB keeps the entry an id already has.
CollectionAdd(ix, key, text) ==
    IF key \in DOMAIN ix THEN ix ELSE (key :> [document |-> text]) @@ ix

\* collection.delete(ids=[key])
CollectionDelete(ix, key) == [k \in DOMAIN ix \ {key} |-> ix[k]]

\* store_embedding -> bool
StoreEmbedding(ix, cfg, key, text) ==
    IF cfg.collection = "none" \/ ~cfg.model THEN {[idx |-> ix, ok |-> FALSE]}
    ELSE IF cfg.collection = "stale" THEN {[idx |-> ix, ok |-> FALSE]}
    ELSE {[idx |-> ix, ok |-> FALSE], [idx |-> CollectionAdd(ix, key, text), ok |-> TRUE]}

\* update_embedding -> bool: delete, then store_embedding
UpdateEmbedding(ix, cfg, key, text) ==
    IF cfg.collection # "ok" THEN {[idx |-> ix, ok |-> FALSE]}
    ELSE {[idx |-> ix, ok |-> FALSE]}
         \cup StoreEmbedding(CollectionDelete(ix, key), cfg, key, text)

\* Mutant of DeleteEmbedding: success is reported and the entry stays.
DeleteEmbeddingKeepsEntry(ix, cfg, key) == {[idx |-> ix, ok |-> TRUE]}

\* delete_embedding -> bool
DeleteEmbedding(ix, cfg, key) ==
    IF cfg.collection # "ok" THEN {[idx |-> ix, ok |-> FALSE]}
    ELSE {[idx |-> ix, ok |-> FALSE], [idx |-> CollectionDelete(ix, key), ok |-> TRUE]}

\* Mutant of ResetCollection: success is reported and the entries stay.
ResetCollectionKeepsEntries(ix, cfg) == {[idx |-> ix, collection |-> cfg.collection, ok |-> TRUE]}

\* reset_collection -> bool: delete_collection, then create_collection.  When
\* create_collection raises, self.collection still names the deleted collection.
ResetCollection(ix, cfg) ==
    IF cfg.collection # "ok" THEN {[idx |-> ix, collection |-> cfg.collection, ok |-> FALSE]}
    ELSE {[idx |-> <<>>, collection |-> "ok", ok |-> TRUE],
          [idx |-> ix, collection |-> "ok", ok |-> FALSE],
          [idx |-> <<>>, collection |-> "stale", ok |-> FALSE]}

\* The cosine distance, in tenths, between the embeddings of two texts: the
\* encoder is a function of the text, so equal texts are at distance 0; the
\* texts of the model that differ are taken to be orthogonal (distance 1.0).
Distance(query_text, document) == IF query_text = document THEN 0 ELSE 10

\* similarity = 1 - distance, in tenths
Similarity(distance) == 10 - distance

\* collection.query(n_results=n): the n nearest entries (all of them when the
\* collection holds fewer), nearest first, entries at the same distance in
\* any order; it raises for n < 1.
CollectionQuery(ix, query_text, n) ==
    IF n < 1 THEN {}
    ELSE LET k == Min2(n, Cardinality(DOMAIN ix))
             dist(key) == Distance(query_text, ix[key].document)
         IN  {[i \in 1..k |-> [memory_id |-> p[i], distance |-> dist(p[i])]] :
                 p \in {q \in [1..k -> DOMAIN ix] :
                           /\ \A i, j \in 1..k : i # j => q[i] # q[j]
                           /\ \A i, j \in 1..k : i < j => dist(q[i]) <= dist(q[j])
                           /\ \A key \in DOMAIN ix \ {q[i] : i \in 1..k} :
                                  dist(q[k]) <= dist(key)}}

\* The loop of search_similar over one query result.
RECURSIVE FormatResults(_, _)
FormatResults(r, min_similarity) ==
    IF r = <<>> THEN <<>>
    ELSE (IF Similarity(Head(r).distance) >= min_similarity
          THEN <<[memory_id |-> Head(r).memory_id, similarity |-> Similarity(Head(r).distance)]>>
          ELSE <<>>)
         \o FormatResults(Tail(r), min_similarity)

\* search_similar -> list: [] when the model or the collection is missing
\* ("unavailable"), [] when encode_text returns None or the query raises
\* ("failed": the exception is caught here), else the formatted hits ("ok").
\* The caller receives the list only; the status is what the log shows.
SearchSimilar(ix, cfg, query_text, n_results, min_similarity) ==
    IF cfg.collection = "none" \/ ~cfg.model THEN {[status |-> "unavailable", results |-> <<>>]}
    ELSE {[status |-> "failed", results |-> <<>>]}
         \cup {[status |-> "ok", results |-> FormatResults(r, min_similarity)] :
                  r \in IF cfg.collection = "ok" THEN CollectionQuery(ix, query_text, n_results) ELSE {}}

----------------------------------------------------------------------------
(* NEUROS: the state after __init__ *)

\* The threads that call into NEUROS.  "t1" is the one that ran __init__.
Callers == {"t1", "t2"}

\* A thread that is not inside a call.
Idle == [op |-> "idle"]

\* The outcomes of __init__: db_path is ":memory:" or a file; self.embeddings
\* is None (enable_embeddings false, or EmbeddingManager raised) or a manager
\* whose model and collection each loaded or not.  io_errors is the
\* environment: whether a statement on the open connection may raise
\* sqlite3.Error (the database file is locked, the disk fails).
Configs ==
    {[db_path |-> p, embeddings |-> FALSE, model |-> FALSE, collection |-> "none",
      io_errors |-> FALSE] : p \in {"memory", "file"}}
    \cup {[db_path |-> p, embeddings |-> TRUE, model |-> m, collection |-> c,
           io_errors |-> FALSE] : p \in {"memory", "file"}, m \in BOOLEAN, c \in {"ok", "none"}}

Init ==
    /\ rows = <<>>
    /\ seq = 0
    /\ connection = "open"
    /\ idx = <<>>
    /\ config \in Configs
    /\ clock = 0
    /\ last = [op |-> "init"]
    /\ hist = [prevId |-> 0, resetSince |-> FALSE, deleted |-> {}]
    /\ inflight = [c \in Callers |-> Idle]

\* A call into the Record Store raises when the connection is closed
\* (self.connection is None: AttributeError), and may raise when the
\* environment has I/O errors.
StoreMustRaise == connection = "closed"

StoreMayRaise == connection = "closed" \/ config.io_errors

\* What the caller sees of a Vector Index step: "ok", "failed", or "none"
\* when the step was not attempted.
IndexOutcome(ok) == IF ok THEN "ok" ELSE "failed"

----------------------------------------------------------------------------
(* NEUROS.remember *)

Remember(a) ==
    \/ /\ StoreMayRaise
       /\ last' = [op |-> "remember", args |-> a, raised |-> TRUE, index |-> "none"]
       /\ UNCHANGED <<rows, seq, connection, idx, config, clock, hist, inflight>>
    \/ /\ ~StoreMustRaise
       /\ NextRowId(rows, seq) <= MaxId
       /\ LET st == StoreMemory(rows, seq, clock, a.content, a.metadata, a.tags, a.importance)
          IN  /\ rows' = st.rows
              /\ seq' = st.seq
              /\ IF config.embeddings
                 THEN \E e \in StoreEmbedding(idx, config, IdToStr(st.ret), a.content) :
                         /\ idx' = e.idx
                         /\ last' = [op |-> "remember", args |-> a, raised |-> FALSE,
                                     memory_id |-> st.ret, index |-> IndexOutcome(e.ok)]
                 ELSE /\ idx' = idx
                      /\ last' = [op |-> "remember", args |-> a, raised |-> FALSE,
                                  memory_id |-> st.ret, index |-> "none"]
              /\ hist' = [hist EXCEPT !.prevId = st.ret, !.resetSince = FALSE]
       /\ UNCHANGED <<connection, config, clock, inflight>>

----------------------------------------------------------------------------
(* NEUROS.get_memory *)

GetMemoryCall(id) ==
    /\ \/ /\ StoreMayRaise
          /\ last' = [op |-> "get_memory", args |-> [memory_id |-> id], raised |-> TRUE]
       \/ /\ ~StoreMustRaise
          /\ last' = [op |-> "get_memory", args |-> [memory_id |-> id], raised |-> FALSE,
                      memory |-> GetMemory(rows, id)]
    /\ UNCHANGED <<rows, seq, connection, idx, config, clock, hist, inflight>>

----------------------------------------------------------------------------
(* NEUROS.update_memory *)

\* Mutant of UpdateReturn: "return success and embed_success".
UpdateReturnBoth(success, embed_success) == success /\ embed_success

\* "return success": the Record Store's flag, whatever update_embedding returned.
UpdateReturn(success, embed_success) == success

UpdateMemoryCall(id, u) ==
    LET a == [memory_id |-> id, content |-> u.content, metadata |-> u.metadata,
              tags |-> u.tags, importance |-> u.importance]
    IN
    \/ /\ NoUpdates(u.content, u.metadata, u.tags, u.importance)
       /\ last' = [op |-> "update_memory", args |-> a, raised |-> FALSE, success |-> FALSE,
                   index |-> "none"]
       /\ UNCHANGED <<rows, seq, connection, idx, config, clock, hist, inflight>>
    \/ /\ ~NoUpdates(u.content, u.metadata, u.tags, u.importance)
       /\ StoreMayRaise
       /\ last' = [op |-> "update_memory", args |-> a, raised |-> TRUE, index |-> "none"]
       /\ UNCHANGED <<rows, seq, connection, idx, config, clock, hist, inflight>>
    \/ /\ ~NoUpdates(u.content, u.metadata, u.tags, u.importance)
       /\ ~StoreMustRaise
       /\ LET st == UpdateMemory(rows, clock, id, u.content, u.metadata, u.tags, u.importance)
          IN  /\ rows' = st.rows
              /\ IF st.ret /\ Truthy(u.content) /\ config.embeddings
                 THEN \E e \in UpdateEmbedding(idx, config, IdToStr(id), Val(u.content)) :
                         /\ idx' = e.idx
                         /\ last' = [op |-> "update_memory", args |-> a, raised |-> FALSE,
                                     success |-> UpdateReturn(st.ret, e.ok),
                                     index |-> IndexOutcome(e.ok)]
                 ELSE /\ idx' = idx
                      /\ last' = [op |-> "update_memory", args |-> a, raised |-> FALSE,
                                  success |-> st.ret, index |-> "none"]
       /\ UNCHANGED <<seq, connection, config, clock, hist, inflight>>

----------------------------------------------------------------------------
(* NEUROS.delete_memory *)

\* "return success": the Record Store's flag, whatever delete_embedding returned.
DeleteReturn(success, embed_success) == success

DeleteMemoryCall(id) ==
    LET a == [memory_id |-> id]
    IN
    \/ /\ StoreMayRaise
       /\ last' = [op |-> "delete_memory", args |-> a, raised |-> TRUE, index |-> "none"]
       /\ UNCHANGED <<rows, seq, connection, idx, config, clock, hist, inflight>>
    \/ /\ ~StoreMustRaise
       /\ LET st == DeleteMemory(rows, id)
          IN  /\ rows' = st.rows
              /\ IF st.ret /\ config.embeddings
                 THEN \E e \in DeleteEmbedding(idx, config, IdToStr(id)) :
                         /\ idx' = e.idx
                         /\ last' = [op |-> "delete_memory", args |-> a, raised |-> FALSE,
                                     success |-> DeleteReturn(st.ret, e.ok),
                                     index |-> IndexOutcome(e.ok)]
                 ELSE /\ idx' = idx
                      /\ last' = [op |-> "delete_memory", args |-> a, raised |-> FALSE,
                                  success |-> st.ret, index |-> "none"]
              /\ hist' = [hist EXCEPT !.deleted = IF st.ret THEN @ \cup {id} ELSE @]
       /\ UNCHANGED <<seq, connection, config, clock, inflight>>

----------------------------------------------------------------------------
(* NEUROS.reset *)

\* The Vector Index step of reset: reset_collection, its result dropped.
ResetIndexStep ==
    IF config.embeddings
    THEN {[idx |-> e.idx, collection |-> e.collection, index |-> IndexOutcome(e.ok)] :
             e \in ResetCollection(idx, config)}
    ELSE {[idx |-> idx, collection |-> config.collection, index |-> "none"]}

\* Mutant of ResetReturn: reset reports what reset_collection reported.
ResetReturnIndex(index) == index # "failed"

\* "return True" at the end of the try block: the result of reset_collection
\* was dropped.
ResetReturn(index) == TRUE

Reset ==
    \E e \in ResetIndexStep :
        /\ idx' = e.idx
        /\ config' = [config EXCEPT !.collection = e.collection]
        /\ \/ \* close(), unlink of a file, MemoryStorage(db_path): a new, empty database
              /\ rows' = <<>>
              /\ seq' = 0
              /\ connection' = "open"
              /\ last' = [op |-> "reset", raised |-> FALSE, success |-> ResetReturn(e.index),
                          index |-> e.index]
              /\ hist' = [hist EXCEPT !.resetSince = TRUE, !.deleted = {}]
           \/ \* close(), then Path.unlink raises: the file stays, the handle is closed
              /\ config.db_path = "file"
              /\ connection' = "closed"
              /\ last' = [op |-> "reset", raised |-> FALSE, success |-> FALSE, index |-> e.index]
              /\ UNCHANGED <<rows, seq, hist>>
           \/ \* close(), unlink, then sqlite3.connect raises: self.storage stays closed
              /\ config.db_path = "file"
              /\ rows' = <<>>
              /\ seq' = 0
              /\ connection' = "closed"
              /\ last' = [op |-> "reset", raised |-> FALSE, success |-> FALSE, index |-> e.index]
              /\ hist' = [hist EXCEPT !.resetSince = TRUE, !.deleted = {}]
        /\ UNCHANGED <<clock, inflight>>

----------------------------------------------------------------------------
(* NEUROS.recall.  A returned memory is written [id, search_type,           *)
(* similarity]; the rest of the dict is RowToDict(id, rows[id]).            *)

\* Mutant of SemanticPath: the length test is on the query as given.
SemanticPathUnstripped(a) ==
    /\ a.use_semantic
    /\ config.embeddings
    /\ Truthy(a.query)
    /\ Len(Val(a.query)) > 2

\* The condition of the semantic branch.
SemanticPath(a) ==
    /\ a.use_semantic
    /\ config.embeddings
    /\ Truthy(a.query)
    /\ Len(Strip(Val(a.query))) > 2

\* Mutant of ResolveHits: "if memory:" is missing, every hit is appended.
ResolveHitsUnchecked(rws, hits) ==
    [i \in 1..Len(hits) |->
        [id |-> StrToId(hits[i].memory_id), search_type |-> "semantic",
         similarity |-> Some(hits[i].similarity)]]

\* The loop over semantic_results: a hit whose id get_memory does not find is skipped.
RECURSIVE ResolveHits(_, _)
ResolveHits(rws, hits) ==
    IF hits = <<>> THEN <<>>
    ELSE (IF ~IsNone(GetMemory(rws, StrToId(Head(hits).memory_id)))
          THEN <<[id |-> StrToId(Head(hits).memory_id), search_type |-> "semantic",
                  similarity |-> Some(Head(hits).similarity)]>>
          ELSE <<>>)
         \o ResolveHits(rws, Tail(hits))

\* The outcomes of the semantic try block up to its return test: how
\* search_similar went and what it returned, the memories appended, and
\* whether get_memory raised on the way ("raised": the except branch ran, at
\* hit f), "none" when the branch was not entered.
SemanticRuns(a) ==
    IF ~SemanticPath(a)
    THEN {[semantic |-> "none", query |-> "none", hits |-> <<>>, memories |-> <<>>]}
    ELSE UNION {
        {[semantic |-> "ok", query |-> q.status, hits |-> q.results,
          memories |-> ResolveHits(rows, q.results)] :
            x \in IF StoreMustRaise /\ q.results # <<>> THEN {} ELSE {1}}
        \cup
        {[semantic |-> "raised", query |-> q.status, hits |-> q.results,
          memories |-> ResolveHits(rows, SubSeq(q.results, 1, f - 1))] :
            f \in IF StoreMustRaise THEN 1..Min2(1, Len(q.results))
                  ELSE IF StoreMayRaise THEN 1..Len(q.results) ELSE {}}
        : q \in SearchSimilar(idx, config, Val(a.query), a.limit, a.min_similarity)}

\* Mutant of SemanticReturns: the try block returns whenever it did not raise.
SemanticReturnsAlways(run, limit) == run.semantic = "ok"

\* "if len(memories) >= limit or len(memories) > 0: return memories[:limit]"
SemanticReturns(run, limit) ==
    run.semantic = "ok" /\ (Len(run.memories) >= limit \/ Len(run.memories) > 0)

\* Mutant of TextEntries: "memory['search_type'] = 'text'" is missing.
TextEntriesUnmarked(s) == [i \in 1..Len(s) |-> [id |-> s[i], search_type |-> "unknown", similarity |-> None]]

\* The loop over text_results: each row is marked 'text' and appended.
TextEntries(s) == [i \in 1..Len(s) |-> [id |-> s[i], search_type |-> "text", similarity |-> None]]

\* The call as the caller and the log see it.
RecallResult(a, run, memories, text) ==
    [op |-> "recall", args |-> a, raised |-> FALSE, memories |-> Slice(memories, a.limit),
     semantic |-> run.semantic, query |-> run.query, hits |-> run.hits, text |-> text]

\* Mutant of Recall: the text search is the else branch of the semantic one.
RecallSemanticOnly(a) ==
    /\ \E run \in SemanticRuns(a) :
          \/ /\ SemanticPath(a)
             /\ last' = RecallResult(a, run, run.memories, "none")
          \/ /\ ~SemanticPath(a)
             /\ StoreMayRaise
             /\ last' = RecallResult(a, run, run.memories, "raised")
          \/ /\ ~SemanticPath(a)
             /\ ~StoreMustRaise
             /\ \E s \in SearchMemories(rows, a.query, a.tags, a.limit) :
                   last' = RecallResult(a, run, run.memories \o TextEntries(s), "ok")
    /\ UNCHANGED <<rows, seq, connection, idx, config, clock, hist, inflight>>

\* Mutant of Recall: the entries of hits that do not resolve are deleted from
\* the collection.
RecallDropsStaleEntries(a) ==
    /\ \E run \in SemanticRuns(a) :
          \/ /\ SemanticReturns(run, a.limit)
             /\ last' = RecallResult(a, run, run.memories, "none")
          \/ /\ ~SemanticReturns(run, a.limit)
             /\ StoreMayRaise
             /\ last' = RecallResult(a, run, run.memories, "raised")
          \/ /\ ~SemanticReturns(run, a.limit)
             /\ ~StoreMustRaise
             /\ \E s \in SearchMemories(rows, a.query, a.tags, a.limit) :
                   last' = RecallResult(a, run, run.memories \o TextEntries(s), "ok")
    /\ idx' = [k \in {x \in DOMAIN idx : StrToId(x) \in DOMAIN rows} |-> idx[k]]
    /\ UNCHANGED <<rows, seq, connection, config, clock, hist, inflight>>

\* After the semantic try block: the early return, or the text search
\* (search_memories raising is caught and logged), then memories[:limit].
Recall(a) ==
    /\ \E run \in SemanticRuns(a) :
          \/ /\ SemanticReturns(run, a.limit)
             /\ last' = RecallResult(a, run, run.memories, "none")
          \/ /\ ~SemanticReturns(run, a.limit)
             /\ StoreMayRaise
             /\ last' = RecallResult(a, run, run.memories, "raised")
          \/ /\ ~SemanticReturns(run, a.limit)
             /\ ~StoreMustRaise
             /\ \E s \in SearchMemories(rows, a.query, a.tags, a.limit) :
                   last' = RecallResult(a, run, run.memories \o TextEntries(s), "ok")
    /\ UNCHANGED <<rows, seq, connection, idx, config, clock, hist, inflight>>

----------------------------------------------------------------------------
(* The calls the model makes *)

Abc == <<"a", "b", "c">>

Xyz == <<"x", "y", "z">>

RememberArgs ==
    {[content |-> Abc, metadata |-> None, tags |-> None, importance |-> 1],
     [content |-> Xyz, metadata |-> Some(<<>>), tags |-> Some(<<>>), importance |-> 5]}

UpdateArgs ==
    {[content |-> None, metadata |-> None, tags |-> None, importance |-> None],
     [content |-> Some(Xyz), metadata |-> None, tags |-> None, importance |-> None]}

RecallArgs ==
    {[query |-> Some(Abc), tags |-> None, use_semantic |-> TRUE, limit |-> 10, min_similarity |-> 1],
     [query |-> Some(Abc), tags |-> None, use_semantic |-> FALSE, limit |-> 10, min_similarity |-> 1],
     [query |-> Some(Xyz), tags |-> None, use_semantic |-> TRUE, limit |-> 0, min_similarity |-> 1]}

Ids == 1..MaxId

Next ==
    \/ \E a \in RememberArgs : Remember(a)
    \/ \E a \in RecallArgs : Recall(a)
    \/ \E id \in Ids : GetMemoryCall(id)
    \/ \E id \in Ids, u \in UpdateArgs : UpdateMemoryCall(id, u)
    \/ \E id \in Ids : DeleteMemoryCall(id)
    \/ Reset

Spec == Init /\ [][Next]_vars

\* The same calls on a database file whose statements may raise sqlite3.Error.
InitFaults ==
    /\ rows = <<>>
    /\ seq = 0
    /\ connection = "open"
    /\ idx = <<>>
    /\ config = [db_path |-> "file", embeddings |-> TRUE, model |-> TRUE, collection |-> "ok",
                 io_errors |-> TRUE]
    /\ clock = 0
    /\ last = [op |-> "init"]
    /\ hist = [prevId |-> 0, resetSince |-> FALSE, deleted |-> {}]
    /\ inflight = [c \in Callers |-> Idle]

SpecFaults == InitFaults /\ [][Next]_vars

----------------------------------------------------------------------------
(* Calls with the inputs the search and validation rules are about: tags,   *)
(* LIKE wildcards in the query, empty content, an importance outside 1..10, *)
(* and a keyword the signature of recall does not have.                     *)

TagX == <<"x">>

TagY == <<"y">>

TagZ == <<"z">>

\* The query "a_c": _ is a LIKE wildcard.
AWildC == <<"a", "_", "c">>

InputRememberArgs ==
    {[content |-> Abc, metadata |-> None, tags |-> Some(<<TagX, TagY>>), importance |-> 1],
     [content |-> <<>>, metadata |-> None, tags |-> None, importance |-> 1],
     [content |-> Xyz, metadata |-> None, tags |-> None, importance |-> 11]}

InputUpdateArgs ==
    {[content |-> None, metadata |-> None, tags |-> None, importance |-> None],
     [content |-> None, metadata |-> None, tags |-> None, importance |-> Some(9)],
     [content |-> Some(<<>>), metadata |-> None, tags |-> None, importance |-> Some(0)]}

InputRecallArgs ==
    {[query |-> Some(AWildC), tags |-> None, use_semantic |-> FALSE, limit |-> 10, min_similarity |-> 1],
     [query |-> Some(Xyz), tags |-> None, use_semantic |-> FALSE, limit |-> 1, min_similarity |-> 1],
     [query |-> None, tags |-> Some(<<TagY, TagZ>>), use_semantic |-> FALSE, limit |-> 10, min_similarity |-> 1],
     [query |-> None, tags |-> Some(<<TagZ>>), use_semantic |-> FALSE, limit |-> 10, min_similarity |-> 1],
     [query |-> None, tags |-> Some(<<TagY>>), use_semantic |-> FALSE, limit |-> 10, min_similarity |-> 1]}

\* recall(query, tags, use_semantic, limit, min_similarity, importance_min=m):
\* recall has no parameter importance_min (nor has search_memories), so the
\* call raises TypeError before the body runs.
RecallImportanceMin(a, m) ==
    /\ last' = [op |-> "recall",
                args |-> [query |-> a.query, tags |-> a.tags, use_semantic |-> a.use_semantic,
                          limit |-> a.limit, min_similarity |-> a.min_similarity,
                          importance_min |-> m],
                raised |-> TRUE, memories |-> <<>>, semantic |-> "none", query |-> "none",
                hits |-> <<>>, text |-> "none"]
    /\ UNCHANGED <<rows, seq, connection, idx, config, clock, hist, inflight>>

ImportanceMins == {9, 10}

\* recall(use_semantic=False): every record, by the text path.
RecallAllArgs ==
    [query |-> None, tags |-> None, use_semantic |-> FALSE, limit |-> 10, min_similarity |-> 1]

NextInputs ==
    \/ \E a \in InputRememberArgs : Remember(a)
    \/ \E a \in InputRecallArgs : Recall(a)
    \/ \E m \in ImportanceMins : RecallImportanceMin(RecallAllArgs, m)
    \/ \E id \in Ids, u \in InputUpdateArgs : UpdateMemoryCall(id, u)
    \/ \E id \in Ids : DeleteMemoryCall(id)
    \/ \E id \in Ids : GetMemoryCall(id)
    \/ Reset

\* A database file and a working Vector Index.
InitInputs ==
    /\ rows = <<>>
    /\ seq = 0
    /\ connection = "open"
    /\ idx = <<>>
    /\ config = [db_path |-> "file", embeddings |-> TRUE, model |-> TRUE, collection |-> "ok",
                 io_errors |-> FALSE]
    /\ clock = 0
    /\ last = [op |-> "init"]
    /\ hist = [prevId |-> 0, resetSince |-> FALSE, deleted |-> {}]
    /\ inflight = [c \in Callers |-> Idle]

SpecInputs == InitInputs /\ [][NextInputs]_vars

----------------------------------------------------------------------------
(* Concurrent callers.  A call of remember, update_memory or delete_memory  *)
(* is two steps, the Record Store step and the Vector Index step, and the   *)
(* steps of two threads interleave.  config.handles says how the threads    *)
(* reach the stores: "shared", both use the NEUROS object that t1 built     *)
(* (sqlite3.connect is called with check_same_thread at its default, so a   *)
(* statement from another thread raises sqlite3.ProgrammingError), or       *)
(* "own", each built its own NEUROS on the same db_path and chroma_path.    *)
(* The Vector Index steps succeed here: no failure is injected.             *)

\* The calling thread is not the one that opened self.connection.
WrongThread(c) == config.handles = "shared" /\ c # "t1"

\* The outcomes of a Vector Index call that report success.
Succeeded(outcomes) == {e \in outcomes : e.ok}

\* Mutant of RememberStoreStep: store_embedding is called under the id the
\* insert is going to get, before store_memory.
RememberIndexFirst(c, a) ==
    /\ inflight[c] = Idle
    /\ NextRowId(rows, seq) <= MaxId
    /\ \E e \in Succeeded(StoreEmbedding(idx, config, IdToStr(NextRowId(rows, seq)), a.content)) :
          idx' = e.idx
    /\ last' = [op |-> "remember", args |-> a, raised |-> FALSE,
                memory_id |-> NextRowId(rows, seq), index |-> "ok"]
    /\ UNCHANGED <<rows, seq, connection, config, clock, hist, inflight>>

\* remember, up to the return of store_memory.
RememberStoreStep(c, a) ==
    /\ inflight[c] = Idle
    /\ \/ /\ WrongThread(c) \/ StoreMustRaise
          /\ last' = [op |-> "remember", args |-> a, raised |-> TRUE, index |-> "none"]
          /\ UNCHANGED <<rows, seq, hist, inflight>>
       \/ /\ ~WrongThread(c) /\ ~StoreMustRaise
          /\ NextRowId(rows, seq) <= MaxId
          /\ LET st == StoreMemory(rows, seq, clock, a.content, a.metadata, a.tags, a.importance)
             IN  /\ rows' = st.rows
                 /\ seq' = st.seq
                 /\ inflight' = [inflight EXCEPT ![c] =
                                    [op |-> "remember", args |-> a, memory_id |-> st.ret]]
                 /\ last' = [op |-> "remember", args |-> a, raised |-> FALSE,
                             memory_id |-> st.ret, index |-> "pending"]
                 /\ hist' = [hist EXCEPT !.prevId = st.ret, !.resetSince = FALSE]
    /\ UNCHANGED <<connection, idx, config, clock>>

\* remember, from "if self.embeddings and memory_id" to the return.
RememberIndexStep(c) ==
    /\ inflight[c].op = "remember"
    /\ \E e \in Succeeded(StoreEmbedding(idx, config, IdToStr(inflight[c].memory_id),
                                         inflight[c].args.content)) :
          idx' = e.idx
    /\ last' = [op |-> "remember", args |-> inflight[c].args, raised |-> FALSE,
                memory_id |-> inflight[c].memory_id, index |-> "ok"]
    /\ inflight' = [inflight EXCEPT ![c] = Idle]
    /\ UNCHANGED <<rows, seq, connection, config, clock, hist>>

\* update_memory, up to the return of storage.update_memory.
UpdateStoreStep(c, id, u) ==
    LET a == [memory_id |-> id, content |-> u.content, metadata |-> u.metadata,
              tags |-> u.tags, importance |-> u.importance]
    IN
    /\ inflight[c] = Idle
    /\ \/ /\ WrongThread(c) \/ StoreMustRaise
          /\ last' = [op |-> "update_memory", args |-> a, raised |-> TRUE, index |-> "none"]
          /\ UNCHANGED <<rows, inflight>>
       \/ /\ ~WrongThread(c) /\ ~StoreMustRaise
          /\ LET st == UpdateMemory(rows, clock, id, u.content, u.metadata, u.tags, u.importance)
             IN  /\ rows' = st.rows
                 /\ IF st.ret /\ Truthy(u.content) /\ config.embeddings
                    THEN /\ inflight' = [inflight EXCEPT ![c] =
                                            [op |-> "update_memory", args |-> a, memory_id |-> id]]
                         /\ last' = [op |-> "update_memory", args |-> a, raised |-> FALSE,
                                     success |-> st.ret, index |-> "pending"]
                    ELSE /\ inflight' = inflight
                         /\ last' = [op |-> "update_memory", args |-> a, raised |-> FALSE,
                                     success |-> st.ret, index |-> "none"]
    /\ UNCHANGED <<seq, connection, idx, config, clock, hist>>

\* update_memory, from "if success and content and self.embeddings" to the return.
UpdateIndexStep(c) ==
    /\ inflight[c].op = "update_memory"
    /\ \E e \in Succeeded(UpdateEmbedding(idx, config, IdToStr(inflight[c].memory_id),
                                          Val(inflight[c].args.content))) :
          idx' = e.idx
    /\ last' = [op |-> "update_memory", args |-> inflight[c].args, raised |-> FALSE,
                success |-> TRUE, index |-> "ok"]
    /\ inflight' = [inflight EXCEPT ![c] = Idle]
    /\ UNCHANGED <<rows, seq, connection, config, clock, hist>>

\* delete_memory, up to the return of storage.delete_memory.
DeleteStoreStep(c, id) ==
    LET a == [memory_id |-> id]
    IN
    /\ inflight[c] = Idle
    /\ \/ /\ WrongThread(c) \/ StoreMustRaise
          /\ last' = [op |-> "delete_memory", args |-> a, raised |-> TRUE, index |-> "none"]
          /\ UNCHANGED <<rows, hist, inflight>>
       \/ /\ ~WrongThread(c) /\ ~StoreMustRaise
          /\ LET st == DeleteMemory(rows, id)
             IN  /\ rows' = st.rows
                 /\ IF st.ret /\ config.embeddings
                    THEN /\ inflight' = [inflight EXCEPT ![c] =
                                            [op |-> "delete_memory", args |-> a, memory_id |-> id]]
                         /\ last' = [op |-> "delete_memory", args |-> a, raised |-> FALSE,
                                     success |-> st.ret, index |-> "pending"]
                    ELSE /\ inflight' = inflight
                         /\ last' = [op |-> "delete_memory", args |-> a, raised |-> FALSE,
                                     success |-> st.ret, index |-> "none"]
                 /\ hist' = [hist EXCEPT !.deleted = IF st.ret THEN @ \cup {id} ELSE @]
    /\ UNCHANGED <<seq, connection, idx, config, clock>>

\* delete_memory, from "if success and self.embeddings" to the return.
DeleteIndexStep(c) ==
    /\ inflight[c].op = "delete_memory"
    /\ \E e \in Succeeded(DeleteEmbedding(idx, config, IdToStr(inflight[c].memory_id))) :
          idx' = e.idx
    /\ last' = [op |-> "delete_memory", args |-> inflight[c].args, raised |-> FALSE,
                success |-> TRUE, index |-> "ok"]
    /\ inflight' = [inflight EXCEPT ![c] = Idle]
    /\ UNCHANGED <<rows, seq, connection, config, clock, hist>>

\* get_memory called by thread c.
GetMemoryStep(c, id) ==
    /\ inflight[c] = Idle
    /\ IF WrongThread(c)
       THEN /\ last' = [op |-> "get_memory", args |-> [memory_id |-> id], raised |-> TRUE]
            /\ UNCHANGED <<rows, seq, connection, idx, config, clock, hist, inflight>>
       ELSE GetMemoryCall(id)

\* recall called by thread c: in another thread than the connection's,
\* search_memories raises and recall's except branch logs it.
RecallStep(c, a) ==
    /\ inflight[c] = Idle
    /\ IF WrongThread(c)
       THEN /\ \E run \in SemanticRuns(a) :
                  /\ ~SemanticReturns(run, a.limit)
                  /\ last' = RecallResult(a, run, run.memories, "raised")
            /\ UNCHANGED <<rows, seq, connection, idx, config, clock, hist, inflight>>
       ELSE Recall(a)

StepRememberArgs == {[content |-> Abc, metadata |-> None, tags |-> None, importance |-> 1]}

StepUpdateArgs == {[content |-> Some(Xyz), metadata |-> None, tags |-> None, importance |-> None]}

StepRecallArgs ==
    {[query |-> Some(Abc), tags |-> None, use_semantic |-> FALSE, limit |-> 10, min_similarity |-> 1]}

NextSteps ==
    \/ \E c \in Callers, a \in StepRememberArgs : RememberStoreStep(c, a)
    \/ \E c \in Callers : RememberIndexStep(c)
    \/ \E c \in Callers, id \in Ids, u \in StepUpdateArgs : UpdateStoreStep(c, id, u)
    \/ \E c \in Callers : UpdateIndexStep(c)
    \/ \E c \in Callers, id \in Ids : DeleteStoreStep(c, id)
    \/ \E c \in Callers : DeleteIndexStep(c)
    \/ \E c \in Callers, id \in Ids : GetMemoryStep(c, id)
    \/ \E c \in Callers, a \in StepRecallArgs : RecallStep(c, a)

InitSteps ==
    /\ rows = <<>>
    /\ seq = 0
    /\ connection = "open"
    /\ idx = <<>>
    /\ \E h \in {"shared", "own"} :
          config = [db_path |-> "file", embeddings |-> TRUE, model |-> TRUE, collection |-> "ok",
                    io_errors |-> FALSE, handles |-> h]
    /\ clock = 0
    /\ last = [op |-> "init"]
    /\ hist = [prevId |-> 0, resetSince |-> FALSE, deleted |-> {}]
    /\ inflight = [c \in Callers |-> Idle]

SpecSteps == InitSteps /\ [][NextSteps]_vars

----------------------------------------------------------------------------
(* Sessions: time passes between calls, and a later NEUROS instance is      *)
(* opened on the same db_path, to which the calls then go.                  *)

\* Mutant of OpenDatabase: every connect starts from an empty database.
OpenDatabaseEmpty(db_path, rws, sq) == [rows |-> <<>>, seq |-> 0]

\* _initialize_db: sqlite3.connect(db_path) and CREATE TABLE IF NOT EXISTS.
\* A file keeps the committed rows and its sqlite_sequence; ":memory:" is a
\* new, empty database for every connection.
OpenDatabase(db_path, rws, sq) ==
    IF db_path = "file" THEN [rows |-> rws, seq |-> sq] ELSE [rows |-> <<>>, seq |-> 0]

\* NEUROS(db_path=...) built again by a later session.
Reopen ==
    /\ rows' = OpenDatabase(config.db_path, rows, seq).rows
    /\ seq' = OpenDatabase(config.db_path, rows, seq).seq
    /\ connection' = "open"
    /\ last' = [op |-> "open", raised |-> FALSE]
    /\ hist' = IF config.db_path = "file" THEN hist
               ELSE [hist EXCEPT !.resetSince = TRUE, !.deleted = {}]
    /\ UNCHANGED <<idx, config, clock, inflight>>

KeyValue == << <<"k">>, <<"v">> >>

SessionRememberArgs ==
    {[content |-> Abc, metadata |-> Some(<<KeyValue>>), tags |-> Some(<<TagX>>), importance |-> 1]}

SessionUpdateArgs ==
    {[content |-> None, metadata |-> None, tags |-> None, importance |-> None],
     [content |-> Some(Xyz), metadata |-> None, tags |-> None, importance |-> None]}

NextSessions ==
    \/ \E a \in SessionRememberArgs : Remember(a)
    \/ \E id \in Ids, u \in SessionUpdateArgs : UpdateMemoryCall(id, u)
    \/ \E id \in Ids : GetMemoryCall(id)
    \/ \E id \in Ids : DeleteMemoryCall(id)
    \/ Reset
    \/ Reopen

InitSessions ==
    /\ rows = <<>>
    /\ seq = 0
    /\ connection = "open"
    /\ idx = <<>>
    /\ \E p \in {"memory", "file"} :
          config = [db_path |-> p, embeddings |-> FALSE, model |-> FALSE, collection |-> "none",
                    io_errors |-> FALSE]
    /\ clock = 0
    /\ last = [op |-> "init"]
    /\ hist = [prevId |-> 0, resetSince |-> FALSE, deleted |-> {}]
    /\ inflight = [c \in Callers |-> Idle]

SpecSessions == InitSessions /\ [][NextSessions]_vars

----------------------------------------------------------------------------
(* Time: CURRENT_TIMESTAMP advances between the calls, on a database file   *)
(* whose statements may raise.                                              *)

\* Largest value of the clock, in seconds.
MaxClock == 1

\* A second goes by.
Tick ==
    /\ clock < MaxClock
    /\ clock' = clock + 1
    /\ last' = [op |-> "tick", raised |-> FALSE]
    /\ UNCHANGED <<rows, seq, connection, idx, config, hist, inflight>>

ClockUpdateArgs ==
    {[content |-> None, metadata |-> None, tags |-> None, importance |-> None],
     [content |-> Some(Xyz), metadata |-> None, tags |-> None, importance |-> None],
     [content |-> None, metadata |-> Some(<<>>), tags |-> Some(<<TagY>>), importance |-> Some(5)]}

\* The id the updates of this specification go to; the other records are
\* there to be left alone.
ClockIds == {1}

NextClock ==
    \/ \E a \in SessionRememberArgs : Remember(a)
    \/ \E id \in ClockIds, u \in ClockUpdateArgs : UpdateMemoryCall(id, u)
    \/ \E id \in ClockIds : GetMemoryCall(id)
    \/ \E id \in ClockIds : DeleteMemoryCall(id)
    \/ Tick

InitClock ==
    /\ rows = <<>>
    /\ seq = 0
    /\ connection = "open"
    /\ idx = <<>>
    /\ config = [db_path |-> "file", embeddings |-> FALSE, model |-> FALSE, collection |-> "none",
                 io_errors |-> TRUE]
    /\ clock = 0
    /\ last = [op |-> "init"]
    /\ hist = [prevId |-> 0, resetSince |-> FALSE, deleted |-> {}]
    /\ inflight = [c \in Callers |-> Idle]

SpecClock == InitClock /\ [][NextClock]_vars

----------------------------------------------------------------------------
(* Recall with absent, blank and short queries and with tag filters on the  *)
(* semantic path, with and without a Vector Index, on a database file whose *)
(* statements may raise.                                                    *)

Blank == <<" ", " ", " ">>

PaddedAb == <<" ", "a", "b", " ">>

QueryRememberArgs ==
    {[content |-> Abc, metadata |-> None, tags |-> Some(<<TagX, TagY>>), importance |-> 1]}

QueryRecallArgs ==
    {[query |-> q, tags |-> None, use_semantic |-> TRUE, limit |-> 10, min_similarity |-> 1] :
        q \in {None, Some(Blank), Some(PaddedAb), Some(Abc)}}
    \cup
    {[query |-> Some(Abc), tags |-> None, use_semantic |-> FALSE, limit |-> 10, min_similarity |-> 1],
     [query |-> Some(Abc), tags |-> Some(<<TagZ>>), use_semantic |-> TRUE, limit |-> 10, min_similarity |-> 1],
     [query |-> Some(Abc), tags |-> Some(<<TagX>>), use_semantic |-> TRUE, limit |-> 10, min_similarity |-> 1]}

NextQueries ==
    \/ \E a \in QueryRememberArgs : Remember(a)
    \/ \E a \in QueryRecallArgs : Recall(a)
    \/ \E id \in Ids : DeleteMemoryCall(id)

InitQueries ==
    /\ rows = <<>>
    /\ seq = 0
    /\ connection = "open"
    /\ idx = <<>>
    /\ \E e \in BOOLEAN :
          config = [db_path |-> "file", embeddings |-> e, model |-> e,
                    collection |-> IF e THEN "ok" ELSE "none", io_errors |-> TRUE]
    /\ clock = 0
    /\ last = [op |-> "init"]
    /\ hist = [prevId |-> 0, resetSince |-> FALSE, deleted |-> {}]
    /\ inflight = [c \in Callers |-> Idle]

SpecQueries == InitQueries /\ [][NextQueries]_vars

----------------------------------------------------------------------------
(* The read calls (recall, get_memory, get_all_memories, get_stats) among   *)
(* remember and delete_memory, with a Vector Index whose operations may     *)
(* fail, on a database file whose statements may raise, as seconds go by.   *)

\* The orders "ORDER BY created_at DESC" may return the ids S in.
CreatedOrderings(rws, S) ==
    {s \in [1..Cardinality(S) -> S] :
        /\ \A i, j \in 1..Cardinality(S) : i # j => s[i] # s[j]
        /\ \A i, j \in 1..Cardinality(S) : i < j => rws[s[i]].created_at >= rws[s[j]].created_at}

\* MemoryStorage.get_all_memories: "if limit:" adds LIMIT for a limit that is
\* neither None nor 0.
GetAllMemories(rws, limit) ==
    {IF IsNone(limit) \/ Val(limit) = 0 THEN s ELSE SqlLimit(s, Val(limit)) :
        s \in CreatedOrderings(rws, DOMAIN rws)}

\* NEUROS.get_all_memories
GetAllMemoriesCall(limit) ==
    /\ \/ /\ StoreMayRaise
          /\ last' = [op |-> "get_all_memories", args |-> [limit |-> limit], raised |-> TRUE]
       \/ /\ ~StoreMustRaise
          /\ \E s \in GetAllMemories(rows, limit) :
                last' = [op |-> "get_all_memories", args |-> [limit |-> limit], raised |-> FALSE,
                         listed |-> s]
    /\ UNCHANGED <<rows, seq, connection, idx, config, clock, hist, inflight>>

\* get_collection_stats()['count']: collection.count(), 0 when there is no
\* collection or count() raises.
CollectionCount(ix, cfg) ==
    IF cfg.collection = "none" THEN {0}
    ELSE IF cfg.collection = "stale" THEN {0}
    ELSE {0, Cardinality(DOMAIN ix)}

\* NEUROS.get_stats: total_memories is len(storage.get_all_memories());
\* embedding_count is there only with a Vector Index (0 stands for its absence).
GetStatsCall ==
    /\ \/ /\ StoreMayRaise
          /\ last' = [op |-> "get_stats", raised |-> TRUE]
       \/ /\ ~StoreMustRaise
          /\ \E s \in GetAllMemories(rows, None) :
             \E c \in IF config.embeddings THEN CollectionCount(idx, config) ELSE {0} :
                last' = [op |-> "get_stats", raised |-> FALSE, total_memories |-> Len(s),
                         embeddings_enabled |-> config.embeddings, embedding_count |-> c]
    /\ UNCHANGED <<rows, seq, connection, idx, config, clock, hist, inflight>>

ReadRememberArgs ==
    {[content |-> Abc, metadata |-> None, tags |-> None, importance |-> 1]}

ReadRecallArgs ==
    {[query |-> Some(Abc), tags |-> None, use_semantic |-> TRUE, limit |-> 10, min_similarity |-> 1],
     [query |-> None, tags |-> None, use_semantic |-> FALSE, limit |-> 10, min_similarity |-> 1]}

ReadLimits == {None, Some(1)}

NextReads ==
    \/ \E a \in ReadRememberArgs : Remember(a)
    \/ \E id \in Ids : DeleteMemoryCall(id)
    \/ \E a \in ReadRecallArgs : Recall(a)
    \/ \E id \in Ids : GetMemoryCall(id)
    \/ \E limit \in ReadLimits : GetAllMemoriesCall(limit)
    \/ GetStatsCall

InitReads ==
    /\ rows = <<>>
    /\ seq = 0
    /\ connection = "open"
    /\ idx = <<>>
    /\ config = [db_path |-> "file", embeddings |-> TRUE, model |-> TRUE, collection |-> "ok",
                 io_errors |-> TRUE]
    /\ clock = 0
    /\ last = [op |-> "init"]
    /\ hist = [prevId |-> 0, resetSince |-> FALSE, deleted |-> {}]
    /\ inflight = [c \in Callers |-> Idle]

SpecReads == InitReads /\ [][NextReads]_vars

----------------------------------------------------------------------------
(* Recall over records of different importance and age: the order and the   *)
(* number of its results on the semantic and on the text path.              *)

OrderRememberArgs ==
    {[content |-> Abc, metadata |-> None, tags |-> None, importance |-> 1],
     [content |-> Xyz, metadata |-> None, tags |-> None, importance |-> 5]}

OrderRecallArgs ==
    {[query |-> Some(Abc), tags |-> None, use_semantic |-> TRUE, limit |-> 10, min_similarity |-> 0],
     [query |-> Some(Abc), tags |-> None, use_semantic |-> TRUE, limit |-> 1, min_similarity |-> 1],
     [query |-> None, tags |-> None, use_semantic |-> FALSE, limit |-> 10, min_similarity |-> 1],
     [query |-> None, tags |-> None, use_semantic |-> FALSE, limit |-> 1, min_similarity |-> 1]}

NextOrder ==
    \/ \E a \in OrderRememberArgs : Remember(a)
    \/ \E id \in ClockIds : DeleteMemoryCall(id)
    \/ \E a \in OrderRecallArgs : Recall(a)
    \/ Tick

InitOrder ==
    /\ rows = <<>>
    /\ seq = 0
    /\ connection = "open"
    /\ idx = <<>>
    /\ config = [db_path |-> "file", embeddings |-> TRUE, model |-> TRUE, collection |-> "ok",
                 io_errors |-> TRUE]
    /\ clock = 0
    /\ last = [op |-> "init"]
    /\ hist = [prevId |-> 0, resetSince |-> FALSE, deleted |-> {}]
    /\ inflight = [c \in Callers |-> Idle]

SpecOrder == InitOrder /\ [][NextOrder]_vars

----------------------------------------------------------------------------
(* Properties *)

IndexIds == {StrToId(k) : k \in DOMAIN idx}

StoreIds == DOMAIN rows

\* The last call was op and returned (it did not raise).
Returned(op) == last.op = op /\ ~last.raised

\* C1, as stated: in every reachable state the ids held in the Vector Index
\* are a subset of the ids held in the Record Store, whichever Vector Index
\* operations fail.
C1_IndexSubsetOfStore == IndexIds \subseteq StoreIds

\* C1, amended: the ids of the Vector Index are a subset of the ids of the
\* Record Store initially, and every call keeps them so, whether its
\* store_embedding or update_embedding fails or not, except a delete_memory or
\* reset whose delete_embedding or reset_collection fails.
C1_SubsetKeptUnlessDropFails ==
    /\ IndexIds \subseteq StoreIds
    /\ [][(/\ IndexIds \subseteq StoreIds
           /\ ~(last'.op \in {"delete_memory", "reset"} /\ last'.index = "failed"))
          => IndexIds' \subseteq StoreIds']_vars

\* C1 witness: a remember or update_memory whose Vector Index step failed,
\* with entries in the index, all of them of stored records.
C1_Witness ==
    /\ last.op \in {"remember", "update_memory"}
    /\ last.index = "failed"
    /\ IndexIds # {}
    /\ IndexIds \subseteq StoreIds

\* C2: a recall that took the semantic path returns no id that is in the
\* Vector Index and not in the Record Store.
C2_StoreAuthority ==
    (last.op = "recall" /\ last.semantic # "none") =>
        \A k \in DOMAIN idx :
            StrToId(k) \notin DOMAIN rows =>
                \A i \in 1..Len(last.memories) : last.memories[i].id # StrToId(k)

\* C2 witness: the semantic query returned a hit for an id the Record Store
\* no longer has, next to a hit that resolved and was returned.
C2_Witness ==
    /\ last.op = "recall"
    /\ last.semantic = "ok"
    /\ Len(last.memories) > 0
    /\ \E i \in 1..Len(last.hits) : StrToId(last.hits[i].memory_id) \notin DOMAIN rows

\* A step that is neither a reset nor a delete_memory or update_memory of id.
KeepsRecord(id) ==
    /\ last'.op # "reset"
    /\ ~(last'.op \in {"delete_memory", "update_memory"} /\ last'.args.memory_id = id)

\* C3: when remember returns an id, get_memory(id) is the record with the
\* content and importance passed in, whatever the Vector Index step did, and
\* get_memory(id) stays what it is over every call that is not a reset, a
\* delete_memory(id) or an update_memory(id).
C3_RememberedIsReadable ==
    [][/\ (last'.op = "remember" /\ ~last'.raised) =>
              /\ ~IsNone(GetMemory(rows', last'.memory_id))
              /\ Val(GetMemory(rows', last'.memory_id)).id = last'.memory_id
              /\ Val(GetMemory(rows', last'.memory_id)).content = last'.args.content
              /\ Val(GetMemory(rows', last'.memory_id)).importance = last'.args.importance
       /\ \A id \in DOMAIN rows :
              KeepsRecord(id) => GetMemory(rows', id) = GetMemory(rows, id)]_vars

\* C3 witness: remember returned an id although store_embedding failed, and
\* the record is in the Record Store and not in the Vector Index.
C3_Witness ==
    /\ Returned("remember")
    /\ last.index = "failed"
    /\ ~IsNone(GetMemory(rows, last.memory_id))
    /\ IdToStr(last.memory_id) \notin DOMAIN idx

\* What the Record Store step of a call does to the table and returns.
StoreStep(a, op) ==
    CASE op = "remember" ->
            LET st == StoreMemory(rows, seq, clock, a.content, a.metadata, a.tags, a.importance)
            IN  [rows |-> st.rows, ret |-> st.ret]
      [] op = "update_memory" ->
            IF NoUpdates(a.content, a.metadata, a.tags, a.importance)
            THEN [rows |-> rows, ret |-> FALSE]
            ELSE UpdateMemory(rows, clock, a.memory_id, a.content, a.metadata, a.tags, a.importance)
      [] op = "delete_memory" -> DeleteMemory(rows, a.memory_id)

\* C4: remember, update_memory and delete_memory return what their Record
\* Store step returned and leave the table as that step left it, whatever the
\* Vector Index step did; they raise only when the Record Store step raised,
\* before the Vector Index is touched.
C4_IndexNeverDecides ==
    [][last'.op \in {"remember", "update_memory", "delete_memory"} =>
          IF last'.raised
          THEN rows' = rows /\ idx' = idx /\ last'.index = "none"
          ELSE /\ rows' = StoreStep(last'.args, last'.op).rows
               /\ IF last'.op = "remember"
                  THEN last'.memory_id = StoreStep(last'.args, last'.op).ret
                  ELSE last'.success = StoreStep(last'.args, last'.op).ret]_vars

\* C4 witness: update_memory returned true although update_embedding failed.
C4_Witness ==
    /\ Returned("update_memory")
    /\ last.index = "failed"
    /\ last.success

\* C5, as stated: get_memory(remember(content, metadata, tags, importance))
\* has exactly the content, metadata, tags and importance passed in.
C5_RoundTrip ==
    Returned("remember") =>
        /\ ~IsNone(GetMemory(rows, last.memory_id))
        /\ Val(GetMemory(rows, last.memory_id)).content = last.args.content
        /\ Val(GetMemory(rows, last.memory_id)).metadata = last.args.metadata
        /\ Val(GetMemory(rows, last.memory_id)).tags = last.args.tags
        /\ Val(GetMemory(rows, last.memory_id)).importance = last.args.importance

\* C6, as stated: a remember that returns after an earlier remember returned
\* has a strictly greater id, whatever calls ran between the two.
C6_IdsIncrease ==
    [][(last'.op = "remember" /\ ~last'.raised /\ hist.prevId # 0)
          => last'.memory_id > hist.prevId]_vars

\* C6, amended: a remember that returns after an earlier remember returned
\* has a strictly greater id, whatever update_memory, delete_memory, recall
\* and get_memory calls ran between the two, provided no reset recreated the
\* database between them.
C6_IdsIncreaseOnOneDatabase ==
    [][(last'.op = "remember" /\ ~last'.raised /\ hist.prevId # 0 /\ ~hist.resetSince)
          => last'.memory_id > hist.prevId]_vars

\* C6 witness: the second remember on one database returned a greater id
\* than the first, the first record having been deleted in between.
C6_Witness ==
    /\ Returned("remember")
    /\ ~hist.resetSince
    /\ last.memory_id > 1
    /\ 1 \in hist.deleted

\* C7: an id that delete_memory has deleted from this database is in no row
\* and is not the id a later remember returns.
C7_DeletedIdNotReused ==
    \A k \in hist.deleted :
        /\ k \notin DOMAIN rows
        /\ Returned("remember") => last.memory_id # k

\* C7 witness: id 1 was deleted while it was the largest id ever assigned,
\* and the next remember returned 2.
C7_Witness ==
    /\ Returned("remember")
    /\ last.memory_id = 2
    /\ hist.deleted = {1}
    /\ DOMAIN rows = {2}

\* C8, as stated: after reset returns the Record Store holds no row and the
\* Vector Index holds no id, whether or not reset_collection failed.
C8_BothStoresEmpty ==
    last.op = "reset" => (DOMAIN rows = {} /\ DOMAIN idx = {})

\* C8, amended: after reset returns true the Record Store holds no row, and
\* the Vector Index holds no id unless reset_collection failed; from a reset
\* that recreated the database until the next remember, every recall returns
\* the empty sequence, whatever the Vector Index still holds.
C8_ResetEmptiesStore ==
    /\ (last.op = "reset" /\ last.success) =>
           /\ DOMAIN rows = {}
           /\ last.index # "failed" => DOMAIN idx = {}
    /\ hist.resetSince =>
           /\ DOMAIN rows = {}
           /\ last.op = "recall" => last.memories = <<>>

\* C8 witness: a recall after a reset whose reset_collection failed: the
\* semantic query returned hits for the records stored before the reset, none
\* resolved, the text search ran, and the result is empty.
C8_Witness ==
    /\ last.op = "recall"
    /\ hist.resetSince
    /\ hist.prevId >= MaxId
    /\ last.semantic = "ok"
    /\ last.hits # <<>>
    /\ last.text = "ok"
    /\ last.memories = <<>>

\* C9, as stated: when the semantic branch is entered and the semantic query
\* runs without raising, recall does not run the text search and every
\* result is marked semantic.
C9_NoTextAfterSemantic ==
    (last.op = "recall" /\ last.semantic = "ok" /\ last.query = "ok") =>
        /\ last.text = "none"
        /\ \A i \in 1..Len(last.memories) : last.memories[i].search_type = "semantic"

\* The number of hits of the last recall that resolved to a record.
Resolved == Len(ResolveHits(rows, last.hits))

\* C9, amended: when the semantic try block completes without raising and
\* resolves at least one record (or limit is not positive), recall returns
\* semantic results only and does not run the text search; in every other
\* case (branch not entered, an exception in the block, or no hit resolved)
\* the text search runs.
C9_TextUnlessSemanticResolved ==
    last.op = "recall" =>
        /\ (last.semantic = "ok" /\ (Resolved > 0 \/ last.args.limit <= 0)) =>
               /\ last.text = "none"
               /\ \A i \in 1..Len(last.memories) : last.memories[i].search_type = "semantic"
        /\ (last.semantic # "ok" \/ (Resolved = 0 /\ last.args.limit > 0)) =>
               last.text # "none"

\* C9 witness: the semantic path resolved one record, fewer than limit, with
\* two rows in the Record Store, and the text search did not run.
C9_Witness ==
    /\ last.op = "recall"
    /\ last.semantic = "ok"
    /\ last.args.limit > Len(last.memories)
    /\ Len(last.memories) = 1
    /\ Cardinality(DOMAIN rows) = 2
    /\ last.text = "none"

\* C10, as stated: the results of one recall are all marked semantic or all
\* marked text.
C10_SingleProvenance ==
    last.op = "recall" =>
        \A i, j \in 1..Len(last.memories) :
            last.memories[i].search_type = last.memories[j].search_type

\* q occurs in s as a substring, character for character.
Contains(s, q) == \E i \in 1..(Len(s) - Len(q) + 1) : SubSeq(s, i, i + Len(q) - 1) = q

\* The ids of a recall result, as a set.
ReturnedIds == {last.memories[i].id : i \in 1..Len(last.memories)}

\* The result of the last recall is in the order of the text search:
\* importance descending, then created_at descending.
InTextOrder ==
    \A i, j \in 1..Len(last.memories) :
        i < j => ~SortsBefore(rows[last.memories[j].id], rows[last.memories[i].id])

\* C11, as stated: a recall with use_semantic false and a non-empty query q
\* whose text search ran returns exactly the records whose content contains q
\* as a case-sensitive substring, truncated to limit, each marked text, in
\* the order importance descending then created_at descending.
C11_TextRecallIsSubstringSearch ==
    (/\ last.op = "recall"
     /\ ~last.raised
     /\ ~last.args.use_semantic
     /\ Truthy(last.args.query)
     /\ ~Truthy(last.args.tags)
     /\ last.text = "ok") =>
        LET matching == {i \in DOMAIN rows : Contains(rows[i].content, Val(last.args.query))}
        IN  /\ ReturnedIds \subseteq matching
            /\ Len(last.memories) = Min2(last.args.limit, Cardinality(matching))
            /\ Cardinality(ReturnedIds) = Len(last.memories)
            /\ \A i \in 1..Len(last.memories) : last.memories[i].search_type = "text"
            /\ InTextOrder
            /\ \A k \in matching \ ReturnedIds :
                   \A i \in 1..Len(last.memories) : ~SortsBefore(rows[k], rows[last.memories[i].id])

\* The tags of a stored record, as a set of whole tags.
TagsOf(row) ==
    IF Truthy(row.tags) THEN {LoadsList(Val(row.tags))[i] : i \in 1..Len(LoadsList(Val(row.tags)))}
    ELSE {}

\* C12, as stated: a text search with a tag filter F (no query, a limit that
\* truncates nothing) returns a record if and only if one of its tags equals
\* one of the tags of F.
C12_TagFilterIsIntersection ==
    (/\ last.op = "recall"
     /\ ~last.raised
     /\ last.semantic = "none"
     /\ last.text = "ok"
     /\ ~Truthy(last.args.query)
     /\ Truthy(last.args.tags)
     /\ last.args.limit >= Cardinality(DOMAIN rows)) =>
        ReturnedIds =
            {i \in DOMAIN rows :
                TagsOf(rows[i]) \cap {Val(last.args.tags)[j] : j \in 1..Len(Val(last.args.tags))} # {}}

\* C13, as stated: a recall with importance_min = m (no query, no tags, a
\* limit that truncates nothing) returns, and returns exactly the records whose
\* current importance is at least m.
C13_ImportanceMinFilters ==
    (last.op = "recall" /\ "importance_min" \in DOMAIN last.args) =>
        /\ ~last.raised
        /\ ReturnedIds = {i \in DOMAIN rows : rows[i].importance >= last.args.importance_min}

\* C19, as stated: remember with empty content raises to the caller; it
\* returns no id, and no record with empty content gets into the Record Store
\* or the Vector Index through it.
C19_EmptyContentRejected ==
    (last.op = "remember" /\ last.args.content = <<>>) =>
        /\ last.raised
        /\ "memory_id" \notin DOMAIN last

\* C20, as stated: every record of the Record Store has an importance in 1..10
\* and non-empty content, and a remember or update_memory called with an
\* importance outside 1..10 raises.
C20_RecordsAreValid ==
    /\ \A i \in DOMAIN rows : rows[i].importance \in 1..10 /\ rows[i].content # <<>>
    /\ (last.op = "remember" /\ last.args.importance \notin 1..10) => last.raised
    /\ (last.op = "update_memory" /\ Truthy(last.args.importance)
            /\ Val(last.args.importance) \notin 1..10) => last.raised

\* C14: on an open Record Store delete_memory(id) does not raise; it returns
\* true exactly when id was in the Record Store, afterwards get_memory(id) is
\* absent, and a delete_memory(id) that follows a delete_memory(id) which
\* returned true returns false.
C14_DeleteTwice ==
    [][(last'.op = "delete_memory" /\ connection = "open") =>
          /\ ~last'.raised
          /\ last'.success = (last'.args.memory_id \in DOMAIN rows)
          /\ IsNone(GetMemory(rows', last'.args.memory_id))
          /\ (Returned("delete_memory") /\ last.success
                  /\ last.args.memory_id = last'.args.memory_id) => ~last'.success]_vars

\* C14 witness: a delete_memory of an id that an earlier delete_memory removed
\* returned false.
C14_Witness ==
    /\ Returned("delete_memory")
    /\ last.args.memory_id \in hist.deleted
    /\ ~last.success
    /\ IsNone(GetMemory(rows, last.args.memory_id))

\* C15: on an open Record Store, for an id that is not in it, get_memory
\* returns None, update_memory and delete_memory return false, none of them
\* raises, and the table, the id sequence and the Vector Index stay as they are.
C15_NotFoundIsNegativeResult ==
    [][(/\ last'.op \in {"get_memory", "update_memory", "delete_memory"}
        /\ last'.args.memory_id \notin DOMAIN rows
        /\ connection = "open") =>
          /\ ~last'.raised
          /\ IF last'.op = "get_memory" THEN IsNone(last'.memory) ELSE ~last'.success
          /\ rows' = rows /\ seq' = seq /\ idx' = idx]_vars

\* C15 witness: update_memory with new content for an id that is not in the
\* Record Store returned false, and the Vector Index entry left under that id
\* by an earlier failed delete_embedding is still the old one.
C15_Witness ==
    /\ Returned("update_memory")
    /\ Truthy(last.args.content)
    /\ last.args.memory_id \notin DOMAIN rows
    /\ ~last.success
    /\ IdToStr(last.args.memory_id) \in DOMAIN idx

\* C16: in remember the Vector Index is written only in a step after the one
\* in which store_memory committed the row: a remember step that changes the
\* index adds one entry, under an id the Record Store has already assigned,
\* and touches no table; and a remember whose insert raised leaves the table,
\* the id sequence and the index as they were and has no Vector Index step.
C16_StoreInsertFirst ==
    [][last'.op = "remember" =>
          /\ idx' # idx =>
                /\ ~last'.raised
                /\ last'.memory_id \in 1..seq
                /\ DOMAIN idx' \ DOMAIN idx = {IdToStr(last'.memory_id)}
                /\ \A k \in DOMAIN idx : idx'[k] = idx[k]
                /\ rows' = rows /\ seq' = seq
          /\ last'.raised =>
                rows' = rows /\ seq' = seq /\ idx' = idx /\ inflight' = inflight]_vars

\* C16 witness: remember has written the Vector Index entry of the record it
\* inserted, while the other thread is between its two steps.
C16_Witness ==
    /\ Returned("remember")
    /\ last.index = "ok"
    /\ IdToStr(last.memory_id) \in DOMAIN idx
    /\ last.memory_id \in DOMAIN rows
    /\ \E c \in Callers : inflight[c] # Idle

\* C17, as stated: while a remember is between its Record Store step and its
\* Vector Index step (and the record has not been deleted since), a
\* get_memory of its id returns the record, and a text recall whose query is
\* in the record's content and whose limit covers the table returns it.
C17_ReaderSeesCommittedRecord ==
    \A c \in Callers :
        (inflight[c].op = "remember" /\ inflight[c].memory_id \in DOMAIN rows) =>
            /\ (last.op = "get_memory" /\ last.args.memory_id = inflight[c].memory_id) =>
                   (~last.raised /\ ~IsNone(last.memory))
            /\ (/\ last.op = "recall"
                /\ ~last.args.use_semantic
                /\ Truthy(last.args.query)
                /\ Contains(rows[inflight[c].memory_id].content, Val(last.args.query))
                /\ last.args.limit >= Cardinality(DOMAIN rows)) =>
                   inflight[c].memory_id \in ReturnedIds

\* C18, as stated: when no call is between its two steps, the ids in the
\* Vector Index are a subset of the ids in the Record Store.
C18_SubsetWhenCallsComplete ==
    (\A c \in Callers : inflight[c] = Idle) => IndexIds \subseteq StoreIds

\* C21, as stated: on a closed Record Store every call that reaches it
\* (remember, get_memory, delete_memory, update_memory with a field to set,
\* recall on its text path) ends in an error raised to the caller, never in
\* a normal-looking result.
C21_StoreFailurePropagates ==
    (/\ connection = "closed"
     /\ \/ last.op \in {"remember", "get_memory", "delete_memory"}
        \/ last.op = "update_memory"
              /\ ~NoUpdates(last.args.content, last.args.metadata, last.args.tags,
                            last.args.importance)
        \/ last.op = "recall" /\ last.text # "none") =>
        last.raised

\* The last recall asked for the semantic path and the Vector Index could not
\* serve it: there is no EmbeddingManager, or search_similar found the model
\* or the collection missing, or its query raised.
IndexDegraded ==
    /\ last.op = "recall"
    /\ last.args.use_semantic
    /\ Truthy(last.args.query)
    /\ Len(Strip(Val(last.args.query))) > 2
    /\ ~config.embeddings \/ last.query \in {"unavailable", "failed"}

\* C22: on an open Record Store, a recall whose Vector Index is absent,
\* without model or collection, or whose semantic query raised, raises nothing
\* and returns what search_memories returns for the same query, tags and
\* limit, every entry marked 'text' (with limit 0 that is the empty list, and
\* recall returns it before it gets to the text search).
C22_DegradedIndexFallsBackToText ==
    (IndexDegraded /\ connection = "open") =>
        /\ ~last.raised
        /\ \E s \in SearchMemories(rows, last.args.query, last.args.tags, last.args.limit) :
              /\ Len(last.memories) = Len(s)
              /\ \A i \in 1..Len(s) :
                    last.memories[i].id = s[i] /\ last.memories[i].search_type = "text"

\* C22 witness: the semantic query raised and recall returned a record found
\* by the text search.
C22_Witness ==
    /\ IndexDegraded
    /\ connection = "open"
    /\ config.embeddings
    /\ last.query = "failed"
    /\ last.memories # <<>>
    /\ last.memories[1].search_type = "text"

\* C24: on an open Record Store, when the content of at least one record
\* contains the query, recall(query) with the default use_semantic, no tags and
\* the default limit returns at least one memory, whatever the Vector Index
\* holds and however its query goes.
C24_SubstringMatchIsFound ==
    (/\ last.op = "recall"
     /\ connection = "open"
     /\ last.args.use_semantic
     /\ ~Truthy(last.args.tags)
     /\ last.args.limit >= 1
     /\ Truthy(last.args.query)
     /\ \E i \in DOMAIN rows : Contains(rows[i].content, Val(last.args.query))) =>
        /\ ~last.raised
        /\ last.memories # <<>>

\* C24 witness: the Vector Index has no entry, its query went through and
\* found nothing, and recall returned the record that contains the query.
C24_Witness ==
    /\ last.op = "recall"
    /\ last.args.use_semantic
    /\ last.args.limit >= 1
    /\ config.embeddings
    /\ idx = <<>>
    /\ last.query = "ok"
    /\ last.memories # <<>>
    /\ Contains(rows[last.memories[1].id].content, Val(last.args.query))

\* C27, as stated: when the Vector Index step of remember or update_memory
\* reports failure, the Vector Index holds exactly the entries it held before
\* the call.
C27_FailedUpsertLeavesIndex ==
    [][(last'.op \in {"remember", "update_memory"} /\ last'.index = "failed") =>
          idx' = idx]_vars

\* C28: reset never raises; it returns true exactly when the Record Store
\* was closed, removed and opened again empty, whatever reset_collection did,
\* and reset_collection has been called in every case, also when the Record
\* Store step then fails.
C28_ResetResultIsStoreResult ==
    [][last'.op = "reset" =>
          /\ ~last'.raised
          /\ last'.success = (connection' = "open" /\ rows' = <<>> /\ seq' = 0)
          /\ IF config.embeddings
             THEN last'.index \in {"ok", "failed"}
             ELSE last'.index = "none" /\ idx' = idx
          /\ last'.index = "ok" => idx' = <<>>]_vars

\* C28 witness: reset returned true although reset_collection failed and the
\* Vector Index still holds its entries.
C28_Witness ==
    /\ Returned("reset")
    /\ last.success
    /\ last.index = "failed"
    /\ idx # <<>>
    /\ rows = <<>>

\* C26, as stated: with a Vector Index configured, update_memory calls
\* update_embedding exactly when the Record Store update succeeded and content
\* was supplied, the empty content included.
C26_ReembedsWhenContentSupplied ==
    (last.op = "update_memory" /\ ~last.raised /\ config.embeddings) =>
        ((last.success /\ ~IsNone(last.args.content)) <=> last.index \in {"ok", "failed"})

\* C23: when a NEUROS instance is opened on a database file, get_memory on
\* it returns, for every id the file held, the record the earlier instance
\* returned, with the same content, metadata and every other field.
C23_RecordsPersistAcrossInstances ==
    [][(last'.op = "open" /\ config.db_path = "file") =>
          /\ connection' = "open"
          /\ DOMAIN rows' = DOMAIN rows
          /\ \A id \in DOMAIN rows : GetMemory(rows', id) = GetMemory(rows, id)]_vars

\* C23 witness: a second instance has been opened on the file, and
\* get_memory(1) on it gives the content and the metadata remember stored.
C23_Witness ==
    /\ last.op = "open"
    /\ config.db_path = "file"
    /\ ~IsNone(GetMemory(rows, 1))
    /\ Val(GetMemory(rows, 1)).content = Abc
    /\ Val(GetMemory(rows, 1)).metadata = Some(<<KeyValue>>)

\* C25: an update_memory that returns, on an id of the table, leaves the id
\* sequence and every other row as they were; with no field supplied it
\* returns false and leaves the row as it was, updated_at included; otherwise
\* it returns true, the supplied fields read back as supplied, updated_at is
\* the current time, and created_at, embedding_id and the fields not supplied
\* are what they were.
C25_UpdateChangesSuppliedFieldsOnly ==
    [][(/\ last'.op = "update_memory"
        /\ ~last'.raised
        /\ last'.args.memory_id \in DOMAIN rows) =>
          LET a   == last'.args
              id  == last'.args.memory_id
              old == rows[last'.args.memory_id]
              new == rows'[last'.args.memory_id]
          IN  /\ DOMAIN rows' = DOMAIN rows
              /\ \A j \in DOMAIN rows \ {id} : rows'[j] = rows[j]
              /\ seq' = seq
              /\ IF IsNone(a.content) /\ IsNone(a.metadata) /\ IsNone(a.tags) /\ IsNone(a.importance)
                 THEN new = old /\ ~last'.success
                 ELSE /\ last'.success
                      /\ new.created_at = old.created_at
                      /\ new.embedding_id = old.embedding_id
                      /\ new.updated_at = clock
                      /\ new.content = IF IsNone(a.content) THEN old.content ELSE Val(a.content)
                      /\ new.importance =
                            IF IsNone(a.importance) THEN old.importance ELSE Val(a.importance)
                      /\ IF IsNone(a.metadata) THEN new.metadata = old.metadata
                         ELSE RowToDict(id, new).metadata = a.metadata
                      /\ IF IsNone(a.tags) THEN new.tags = old.tags
                         ELSE RowToDict(id, new).tags = a.tags]_vars

\* C25 witness: a second after the records were created, update_memory set
\* metadata, tags and importance of record 1; its content is the old one,
\* updated_at is later than created_at, and record 2 is there.
C25_Witness ==
    /\ Returned("update_memory")
    /\ last.success
    /\ IsNone(last.args.content)
    /\ ~IsNone(last.args.importance)
    /\ {1, 2} \subseteq DOMAIN rows
    /\ rows[1].content = Abc
    /\ rows[1].importance = Val(last.args.importance)
    /\ rows[1].updated_at > rows[1].created_at
    /\ rows[2].updated_at = rows[2].created_at

\* C29: recall calls search_similar exactly when use_semantic is true, an
\* EmbeddingManager exists and the query, stripped, has more than 2
\* characters; in every other case the Vector Index is not asked and no
\* returned memory is marked 'semantic'.
C29_SemanticOnlyWhenAsked ==
    last.op = "recall" =>
        LET asked == /\ last.args.use_semantic
                     /\ config.embeddings
                     /\ last.args.query # None
                     /\ Len(Strip(Val(last.args.query))) > 2
        IN  /\ asked <=> last.query # "none"
            /\ ~asked =>
                  /\ last.semantic = "none"
                  /\ last.hits = <<>>
                  /\ \A i \in 1..Len(last.memories) : last.memories[i].search_type = "text"

\* C29 witness: with use_semantic true and a Vector Index that has an entry,
\* recall of a 4-character query that strips to 2 characters did not ask the
\* Vector Index.
C29_Witness ==
    /\ last.op = "recall"
    /\ last.args.use_semantic
    /\ last.args.query = Some(PaddedAb)
    /\ config.embeddings
    /\ idx # <<>>
    /\ last.query = "none"
    /\ last.text = "ok"

\* C30, as stated: when recall is given tags, every memory it returns has at
\* least one of them, on the semantic path as on the text path.
C30_TagFilterOnEveryPath ==
    (last.op = "recall" /\ Truthy(last.args.tags)) =>
        \A i \in 1..Len(last.memories) :
            TagsOf(rows[last.memories[i].id])
                \cap {Val(last.args.tags)[j] : j \in 1..Len(Val(last.args.tags))} # {}

\* The positions of the memories of the last recall that carry search_type t.
PositionsOf(t) == {i \in 1..Len(last.memories) : last.memories[i].search_type = t}

\* The hits of the last recall that get_memory resolves, in the order of the query.
ResolvedHitIds ==
    LET h == SelectSeq(last.hits, LAMBDA x : StrToId(x.memory_id) \in DOMAIN rows)
    IN  [i \in 1..Len(h) |-> StrToId(h[i].memory_id)]

\* C31: for every limit >= 0, recall returns at most limit results; its
\* semantic results are, in the order of the Vector Index query, the hits
\* that resolve (similarity descending, each at least min_similarity), and
\* its text results are ordered by importance descending, ties by created_at
\* descending.
C31_RecallKeepsOrderWithinLimit ==
    (last.op = "recall" /\ last.args.limit >= 0) =>
        LET m == last.memories
            sem == PositionsOf("semantic")
            txt == PositionsOf("text")
        IN  /\ Len(m) <= last.args.limit
            /\ \A i \in sem : Val(m[i].similarity) >= last.args.min_similarity
            /\ \A i, j \in sem : i < j => Val(m[i].similarity) >= Val(m[j].similarity)
            /\ sem = 1..Cardinality(sem)
            /\ Cardinality(sem) <= Len(ResolvedHitIds)
            /\ \A i \in sem : m[i].id = ResolvedHitIds[i]
            /\ \A i, j \in txt : i < j =>
                  \/ rows[m[i].id].importance > rows[m[j].id].importance
                  \/ /\ rows[m[i].id].importance = rows[m[j].id].importance
                     /\ rows[m[i].id].created_at >= rows[m[j].id].created_at

\* C31 witness: a text recall returned the later, more important record
\* before the earlier one, and a record of equal importance after it.
C31_Witness ==
    /\ last.op = "recall"
    /\ last.args.limit = 10
    /\ Len(last.memories) = 2
    /\ PositionsOf("text") = {1, 2}
    /\ last.memories[1].id = 2
    /\ last.memories[2].id = 1
    /\ \/ rows[2].importance > rows[1].importance
       \/ rows[2].importance = rows[1].importance /\ rows[2].created_at > rows[1].created_at

\* The calls that only read.
ReadOps == {"recall", "get_memory", "get_all_memories", "get_stats"}

\* C32: recall, get_memory, get_all_memories and get_stats leave the Record
\* Store and the Vector Index as they were, whether they return or raise,
\* with hits that no longer resolve and with a failing index; the
\* total_memories of get_stats is the number of rows in the Record Store.
C32_ReadsChangeNothing ==
    [][last'.op \in ReadOps =>
          /\ rows' = rows
          /\ seq' = seq
          /\ idx' = idx
          /\ (last'.op = "get_stats" /\ ~last'.raised) =>
                last'.total_memories = Cardinality(DOMAIN rows)]_vars

\* C32 witness: a recall asked the Vector Index, got a hit whose record had
\* been deleted, and returned without it; the stale entry is still there.
C32_Witness ==
    /\ last.op = "recall"
    /\ last.semantic = "ok"
    /\ \E i \in 1..Len(last.hits) :
          /\ StrToId(last.hits[i].memory_id) \notin DOMAIN rows
          /\ last.hits[i].memory_id \in DOMAIN idx
    /\ rows # <<>>

\* C33: a record's created_at is the time of its insertion, equal to its
\* updated_at at that moment, and no later call changes it; an update_memory
\* that returns true sets updated_at to the time of the update; updated_at is
\* never earlier than created_at.
C33_TimestampsKept ==
    [][/\ \A id \in DOMAIN rows' \ DOMAIN rows :
              /\ rows'[id].created_at = clock
              /\ rows'[id].updated_at = rows'[id].created_at
       /\ \A id \in DOMAIN rows' \cap DOMAIN rows :
              rows'[id].created_at = rows[id].created_at
       /\ (last'.op = "update_memory" /\ ~last'.raised /\ last'.success) =>
              rows'[last'.args.memory_id].updated_at = clock
       /\ \A id \in DOMAIN rows' : rows'[id].updated_at >= rows'[id].created_at]_vars

\* C33 witness: record 1 was updated a second after its insertion and the
\* update returned true; record 2, created in that later second, is untouched.
C33_Witness ==
    /\ last.op = "update_memory"
    /\ ~last.raised
    /\ last.success
    /\ last.args.memory_id = 1
    /\ {1, 2} \subseteq DOMAIN rows
    /\ rows[1].created_at = 0
    /\ rows[1].updated_at = 1
    /\ rows[2].created_at = 1
    /\ rows[2].updated_at = 1
    /\ clock = 1

\* C34, as stated: an entry of the Vector Index was written for the record
\* its id resolves to.  Over remember, update_memory, delete_memory and reset,
\* with Vector Index operations free to fail, a record never comes into being
\* under an id that the Vector Index already holds an entry for (an entry
\* written by an earlier remember, for another record), so that no semantic
\* hit resolves to a record of another remember call.
C34_IndexEntryIsOfItsRecord ==
    [][\A k \in DOMAIN idx' :
          StrToId(k) \in DOMAIN rows' \ DOMAIN rows => k \notin DOMAIN idx]_vars

\* C35, as stated: no recall returns the same record id more than once, on
\* the semantic path, on the text path, and when the semantic path failed
\* after having resolved some hits.
C35_NoIdReturnedTwice ==
    last.op = "recall" =>
        \A i, j \in 1..Len(last.memories) :
            i # j => last.memories[i].id # last.memories[j].id

\* C36, as stated: after reset returns, true or false, NEUROS holds an open
\* Record Store handle, so that a following remember, get_memory or
\* get_all_memories does not fail for a store left closed by the reset.
C36_ResetLeavesStoreOpen ==
    (last.op = "reset" /\ ~last.raised) => connection = "open"
====
